---------------------------- MODULE Spec2Model ----------------------------
(***************************************************************************)
(* TSP by a genetic algorithm (tournament selection, PMX, swap mutation,   *)
(* elitist truncation) and by nearest-neighbour greedy construction, as    *)
(* implemented in tsp_ea_greedy.ipynb.                                     *)
(*                                                                         *)
(* Python lists and numpy arrays that the code indexes from 0 are functions*)
(* over 0..n-1; lists the code only appends to and scans are sequences.    *)
(* Random draws (random.sample, random.random, np.random.permutation) are  *)
(* existentially quantified inputs of the actions.                         *)
(***************************************************************************)
EXTENDS Integers, Sequences, FiniteSets, TLC

VARIABLES
    pc,               \* position of the running function
    cities,           \* rows of the CSV file: 0..n-1 -> <<lat, lon>>
    DIST_MATRIX,      \* compute_DIST_MATRIX's result
    num_cities,
    \* pmx
    parent1, parent2, start, end, child, i,
    \* mutate (with i)
    j,
    \* tournament_selection
    population, fitness_scores, k, selected, selected_fitness, best_individual,
    \* genetic_algorithm
    offspring, generation, best_distance, best_generation,
    \* greedy_algorithm
    tour, visited, total_cost, steps,
    \* calculate_distance_path / fitness
    individual, result

vars == <<pc, cities, DIST_MATRIX, num_cities,
          parent1, parent2, start, end, child, i, j,
          population, fitness_scores, k, selected, selected_fitness, best_individual,
          offspring, generation, best_distance, best_generation,
          tour, visited, total_cost, steps,
          individual, result>>

inputVars  == <<cities, DIST_MATRIX, num_cities>>
pmxVars    == <<parent1, parent2, start, end, child, i, j>>
selVars    == <<k, selected, selected_fitness>>
gaVars     == <<population, fitness_scores, best_individual,
                offspring, generation, best_distance, best_generation>>
greedyVars == <<tour, visited, total_cost, steps>>
fitVars    == <<individual, result>>

-----------------------------------------------------------------------------
(* Bounds of the model *)

\* most cities of an input of pmx, mutate, fitness and greedy_algorithm
MaxCities == 4

\* most individuals of a population handed to tournament_selection on its own
MaxPopulation == 4

\* largest latitude and longitude of a city of a generated CSV file
MaxCoord == 1

\* POPULATION_SIZE, OFFSPRING_SIZE and MAX_GENERATIONS of the notebook (150, 50
\* and 2000 there), scaled down
POPULATION_SIZE == 2

OFFSPRING_SIZE == 1

MAX_GENERATIONS == 2

\* longest tour length behind a fitness score handed to tournament_selection on its own
MaxTourLength == 2

\* children bred per generation where the breeding loop is run statement by
\* statement: two, so that a child is bred while another is already in offspring
MaxOffspring == 2

\* most cities of a file the statement-by-statement breeding loop is run on
MaxBreedCities == 3

\* bits in the significand of a float (numpy's float64 has 53); every tour length
\* of the model is a whole number below 2^MantissaBits, hence exact
MantissaBits == 6

-----------------------------------------------------------------------------
(* Program constants *)

\* def tournament_selection(population, fitness_scores, k=3)
TOURNAMENT_K == 3

-----------------------------------------------------------------------------
(* Python values *)

\* Python's None, the placeholder of an unassigned cell of pmx's child
None == -1

\* the value of a variable the running function has not bound
Unbound == <<>>

\* range(n)
Range(n) == 0 .. (n - 1)

\* len() of a 0-based list
Len0(a) == Cardinality(DOMAIN a)

\* all results of np.random.permutation(n)
Permutations0(n) == {p \in [Range(n) -> Range(n)] : \A v \in Range(n) : \E x \in Range(n) : p[x] = v}

\* `a` holds every value of 0..n-1 exactly once, on the positions 0..n-1
IsPermutation(a, n) ==
    /\ DOMAIN a = Range(n)
    /\ \A v \in Range(n) : Cardinality({x \in Range(n) : a[x] = v}) = 1

-----------------------------------------------------------------------------
(* pmx *)

\* np.where(parent2 == value)[0][0]: the first position of value in parent2
FirstIndex(a, value) == CHOOSE x \in DOMAIN a : a[x] = value /\ \A y \in DOMAIN a : a[y] = value => x <= y

\* child = [None] * num_cities; child[start:end] = parent1[start:end]
CopySegment(p1, n, s, e) == [x \in Range(n) |-> IF s <= x /\ x < e THEN p1[x] ELSE None]

\* mutant: the mapping is followed at most twice
ChainIndexTwice(p1, p2, s, e, index) ==
    IF s <= index /\ index < e
    THEN LET found == FirstIndex(p2, p1[index])
         IN  IF s <= found /\ found < e THEN FirstIndex(p2, p1[found]) ELSE found
    ELSE index

\* mutant: the mapping is followed once instead of until it leaves the segment
ChainIndexOnce(p1, p2, s, e, index) ==
    IF s <= index /\ index < e THEN FirstIndex(p2, p1[index]) ELSE index

\* while start <= index < end: index = np.where(parent2 == parent1[index])[0][0]
RECURSIVE ChainIndex(_, _, _, _, _)
ChainIndex(p1, p2, s, e, index) ==
    IF s <= index /\ index < e
    THEN ChainIndex(p1, p2, s, e, FirstIndex(p2, p1[index]))
    ELSE index

\* the number of look-ups the while loop makes from index on, None if it comes
\* back to a position it has been at (seen) and so never ends
RECURSIVE ChainLookups(_, _, _, _, _, _)
ChainLookups(p1, p2, s, e, index, seen) ==
    IF ~(s <= index /\ index < e) THEN 0
    ELSE IF index \in seen THEN None
    ELSE LET rest == ChainLookups(p1, p2, s, e, FirstIndex(p2, p1[index]), seen \cup {index})
         IN  IF rest = None THEN None ELSE rest + 1

\* one pass of the body of `for i in range(start, end)`
MapStep(c, p1, p2, s, e, x) ==
    IF \A y \in DOMAIN c : c[y] # p2[x]
    THEN [c EXCEPT ![ChainIndex(p1, p2, s, e, x)] = p2[x]]
    ELSE c

\* the passes x, x+1, .., end-1 of `for i in range(start, end)`
RECURSIVE MapSegment(_, _, _, _, _, _)
MapSegment(c, p1, p2, s, e, x) ==
    IF x < e THEN MapSegment(MapStep(c, p1, p2, s, e, x), p1, p2, s, e, x + 1) ELSE c

\* mutant: an unassigned cell takes parent2's value of the next position
FillRestShifted(c, p2, n) == [x \in Range(n) |-> IF c[x] = None THEN p2[(x + 1) % n] ELSE c[x]]

\* for i in range(num_cities): if child[i] is None: child[i] = parent2[i]
FillRest(c, p2, n) == [x \in Range(n) |-> IF c[x] = None THEN p2[x] ELSE c[x]]

\* pmx(parent1, parent2, num_cities) with the cut points it drew
pmx(p1, p2, n, s, e) == FillRest(MapSegment(CopySegment(p1, n, s, e), p1, p2, s, e, s), p2, n)

\* mutant: the two cut points are drawn independently and may coincide
CutPointsWithReplacement(n) == {<<s, e>> \in Range(n) \X Range(n) : s <= e}

\* start, end = sorted(random.sample(range(num_cities), 2))
CutPoints(n) == {<<s, e>> \in Range(n) \X Range(n) : s < e}

-----------------------------------------------------------------------------
(* numpy float64 values: distances, fitness scores, float('inf') *)

\* the float num/den; den = 0 is inf. Tour lengths are whole numbers d/1; a quotient
\* is rounded to MantissaBits bits, so its denominator is a power of two.
Float(n, d) == [num |-> n, den |-> d]

\* float('inf')
inf == Float(1, 0)

\* a < b
Less(a, b) == a.num * b.den < b.num * a.den

RECURSIVE Pow2(_)
\* 2 ** e
Pow2(e) == IF e = 0 THEN 1 ELSE 2 * Pow2(e - 1)

RECURSIVE ExponentOf(_, _, _)
\* the binary exponent of the positive quotient n / d: the e with
\* 2^(MantissaBits - 1) <= (n / d) / 2^e < 2^MantissaBits, searched from e
ExponentOf(n, d, e) ==
    LET scaledNum == IF e < 0 THEN n * Pow2(-e) ELSE n
        scaledDen == IF e > 0 THEN d * Pow2(e) ELSE d
    IN  IF scaledNum >= scaledDen * Pow2(MantissaBits) THEN ExponentOf(n, d, e + 1)
        ELSE IF scaledNum < scaledDen * Pow2(MantissaBits - 1) THEN ExponentOf(n, d, e - 1)
        ELSE e

RECURSIVE Lowest(_, _)
\* the float n/d in lowest terms (d is a power of two)
Lowest(n, d) == IF d > 1 /\ n % 2 = 0 THEN Lowest(n \div 2, d \div 2) ELSE Float(n, d)

\* the float nearest to the positive quotient n / d: a significand of MantissaBits
\* bits, round to nearest, ties to even (IEEE 754 division)
Round(n, d) ==
    LET e == ExponentOf(n, d, 0)
        scaledNum == IF e < 0 THEN n * Pow2(-e) ELSE n
        scaledDen == IF e > 0 THEN d * Pow2(e) ELSE d
        floor == scaledNum \div scaledDen
        twiceRest == 2 * (scaledNum % scaledDen)
        significand == IF twiceRest > scaledDen \/ (twiceRest = scaledDen /\ floor % 2 = 1)
                       THEN floor + 1 ELSE floor
    IN  IF e < 0 THEN Lowest(significand, Pow2(-e)) ELSE Float(significand * Pow2(e), 1)

\* 1 / a on numpy floats: 1 / 0.0 is inf (a RuntimeWarning, no exception), 1 / inf is 0.0,
\* any other quotient is rounded to the nearest float
Reciprocal(a) == IF a.num = 0 THEN Float(1, 0)
                 ELSE IF a.den = 0 THEN Float(0, 1)
                 ELSE Round(a.den, a.num)

\* np.isfinite(a)
IsFinite(a) == a.den # 0

\* max() of a non-empty list of floats: the first of its largest entries
MaxOf(seq) == seq[CHOOSE x \in 1 .. Len(seq) :
                     /\ \A y \in 1 .. Len(seq) : ~Less(seq[x], seq[y])
                     /\ \A y \in 1 .. (x - 1) : Less(seq[y], seq[x])]

\* list.index(value): the first position of value (1-based here)
ListIndex(seq, value) == CHOOSE x \in 1 .. Len(seq) : seq[x] = value /\ \A y \in 1 .. (x - 1) : seq[y] # value

Min(a, b) == IF a <= b THEN a ELSE b

-----------------------------------------------------------------------------
(* tournament_selection *)

\* an individual is a Python object: its identity id(ind) and its content
Individual(address, t) == [id |-> address, tour |-> t]

\* k = min(k, len(population))
TournamentK(pop) == Min(TOURNAMENT_K, Len(pop))

\* random.sample(population, k): every list of k distinct positions of population
Samples(pop, kk) ==
    {smp \in [1 .. kk -> 1 .. Len(pop)] : \A x, y \in 1 .. kk : x # y => smp[x] # smp[y]}

\* the individuals at the sampled positions, in the order drawn
Selected(pop, smp) == [x \in 1 .. Len(smp) |-> pop[smp[x]]]

\* mutant: membership in the sample is decided by content instead of by id()
RECURSIVE SelectedFitnessByValue(_, _, _, _)
SelectedFitnessByValue(pop, fit, sel, x) ==
    IF x > Len(pop) THEN <<>>
    ELSE (IF pop[x].tour \in {sel[y].tour : y \in 1 .. Len(sel)} THEN <<fit[x]>> ELSE <<>>)
         \o SelectedFitnessByValue(pop, fit, sel, x + 1)

\* [fitness_scores[i] for i, ind in enumerate(population) if id(ind) in map(id, selected)]
\* from position x on: the scores of the sampled individuals in POPULATION order
RECURSIVE SelectedFitness(_, _, _, _)
SelectedFitness(pop, fit, sel, x) ==
    IF x > Len(pop) THEN <<>>
    ELSE (IF pop[x].id \in {sel[y].id : y \in 1 .. Len(sel)} THEN <<fit[x]>> ELSE <<>>)
         \o SelectedFitness(pop, fit, sel, x + 1)

\* selected_fitness.index(max(selected_fitness)), as a position of `selected`
BestIndex(selfit) == ListIndex(selfit, MaxOf(selfit))

\* selected[...] raises IndexError: the index is no position of the sample
TournamentRaises(pop, fit, smp) ==
    BestIndex(SelectedFitness(pop, fit, Selected(pop, smp), 1)) > Len(smp)

\* tournament_selection(population, fitness_scores) with the sample it drew
tournament_selection(pop, fit, smp) ==
    Selected(pop, smp)[BestIndex(SelectedFitness(pop, fit, Selected(pop, smp), 1))]

\* the fitness score the caller holds for a member of the population
ScoreOf(pop, fit, ind) == fit[CHOOSE x \in 1 .. Len(pop) : pop[x].id = ind.id]

-----------------------------------------------------------------------------
(* mutate *)

\* i, j = random.sample(range(len(individual)), 2)
SwapPoints(n) == {<<a, b>> \in Range(n) \X Range(n) : a # b}

\* mutant: the second assignment reads the cell the first one has overwritten
mutateSequential(t, a, b) == [t EXCEPT ![a] = t[b], ![b] = t[b]]

\* individual[i], individual[j] = individual[j], individual[i]
mutate(t, a, b) == [t EXCEPT ![a] = t[b], ![b] = t[a]]

-----------------------------------------------------------------------------
(* compute_DIST_MATRIX *)

Abs(x) == IF x < 0 THEN -x ELSE x

\* geodesic((lat, lon), (lat, lon)).km of geopy, of which the code uses that it
\* is a distance: here the taxicab distance of the two points
geodesic(c1, c2) == Abs(c1[1] - c2[1]) + Abs(c1[2] - c2[2])

\* pd.read_csv of a file of n >= 1 rows: the rows' (lat, lon), indexed 0..n-1
CityFiles(n) == [Range(n) -> (0 .. MaxCoord) \X (0 .. MaxCoord)]

\* compute_DIST_MATRIX that sets only [c1, c2] and leaves [c2, c1] at np.zeros
compute_DIST_MATRIXUpperOnly(file) ==
    [r \in DOMAIN file |-> [c \in DOMAIN file |->
        IF r < c THEN geodesic(file[r], file[c]) ELSE 0]]

\* np.zeros((n, n)), then for every combination c1 < c2 both [c1, c2] and
\* [c2, c1] are set to geodesic(c1, c2)
compute_DIST_MATRIX(file) ==
    [r \in DOMAIN file |-> [c \in DOMAIN file |->
        IF r = c THEN 0
        ELSE IF r < c THEN geodesic(file[r], file[c]) ELSE geodesic(file[c], file[r])]]

-----------------------------------------------------------------------------
(* calculate_distance_path, fitness *)

\* sum(DIST_MATRIX[individual[i], individual[i + 1]] for i in range(x, num_cities - 1))
RECURSIVE PathSum(_, _, _)
PathSum(t, D, x) ==
    IF x >= Len0(t) - 1 THEN 0 ELSE D[t[x]][t[x + 1]] + PathSum(t, D, x + 1)

\* calculate_distance_path(individual, DIST_MATRIX)
calculate_distance_path(t, D) == PathSum(t, D, 0) + D[t[Len0(t) - 1]][t[0]]

\* fitness(individual, DIST_MATRIX) = 1 / calculate_distance_path(...)
fitness(t, D) == Reciprocal(Float(calculate_distance_path(t, D), 1))

-----------------------------------------------------------------------------
(* greedy_algorithm *)

\* tour[-1]
Last(seq) == seq[Len(seq)]

\* mutant: the nearest city is looked for among all cities but the last one
NextCityAmongAll(D, n, vis, last) ==
    CHOOSE c \in Range(n) \ {last} :
        /\ \A o \in Range(n) \ {last} : D[last][c] <= D[last][o]
        /\ \A o \in Range(n) \ {last} : D[last][o] = D[last][c] => c <= o

\* mutant: of the unvisited cities nearest to last, the last in ascending order
NextCityLastOfTies(D, n, vis, last) ==
    CHOOSE c \in Range(n) \ vis :
        /\ \A o \in Range(n) \ vis : D[last][c] <= D[last][o]
        /\ \A o \in Range(n) \ vis : D[last][o] = D[last][c] => c >= o

\* min((i for i in range(num_cities) if i not in visited), key=lambda x: DIST_MATRIX[last, x]):
\* the first, in ascending order, of the unvisited cities nearest to last
NextCity(D, n, vis, last) ==
    CHOOSE c \in Range(n) \ vis :
        /\ \A o \in Range(n) \ vis : D[last][c] <= D[last][o]
        /\ \A o \in Range(n) \ vis : D[last][o] = D[last][c] => c <= o

\* mutant: the loop stops one city short, `while len(tour) < num_cities - 1`
TourIncompleteButOne(t, n) == Len(t) < n - 1

\* the condition of `while len(tour) < num_cities`
TourIncomplete(t, n) == Len(t) < n

\* mutant: the way back to the start is not charged
ClosingEdgeFree(D, t) == 0

\* DIST_MATRIX[tour[-1], tour[0]]
ClosingEdge(D, t) == D[Last(t)][t[1]]

\* the sum of DIST_MATRIX[tour[x], tour[x+1]] over the consecutive pairs of tour
RECURSIVE TourCost(_, _, _)
TourCost(t, D, x) ==
    IF x >= Len(t) THEN 0 ELSE D[t[x]][t[x + 1]] + TourCost(t, D, x + 1)

-----------------------------------------------------------------------------
(* genetic_algorithm *)

\* a CSV file from its rows
File(rows) == [x \in Range(Len(rows)) |-> rows[x + 1]]

\* the files of `datasets` that genetic_algorithm is run on: one city, two
\* cities in the same place, three cities, and four cities whose three
\* round trips have the lengths 12, 14 and 16
datasets ==
    { File(<< <<0, 0>> >>),
      File(<< <<0, 0>>, <<0, 0>> >>),
      File(<< <<0, 0>>, <<1, 0>>, <<0, 2>> >>),
      File(<< <<0, 0>>, <<2, 0>>, <<0, 1>>, <<3, 3>> >>) }

\* create_population with range(POPULATION_SIZE + 1)
create_populationOneMore(n) ==
    {[x \in 1 .. (POPULATION_SIZE + 1) |-> Individual(x, f[x])] :
        f \in [1 .. (POPULATION_SIZE + 1) -> Permutations0(n)]}

\* create_population(num_cities): POPULATION_SIZE new objects, each a random permutation
create_population(n) ==
    {[x \in 1 .. POPULATION_SIZE |-> Individual(x, f[x])] :
        f \in [1 .. POPULATION_SIZE -> Permutations0(n)]}

\* [fitness(ind, DIST_MATRIX) for ind in population]
FitnessScores(pop, D) == [x \in 1 .. Len(pop) |-> fitness(pop[x].tour, D)]

\* the ids of the objects of a list
Ids(pop) == {pop[x].id : x \in 1 .. Len(pop)}

\* id() of a newly created list: an address no live object has
FreshId(live) == CHOOSE a \in 1 .. (Cardinality(live) + 1) : a \notin live

\* mutant: the indices are taken in ascending order of fitness
ArgsortAscending(fit) ==
    {o \in [1 .. Len(fit) -> 1 .. Len(fit)] :
        /\ \A x, y \in 1 .. Len(fit) : x # y => o[x] # o[y]
        /\ \A x, y \in 1 .. Len(fit) : x < y => ~Less(fit[o[y]], fit[o[x]])}

\* np.argsort(fitness_scores)[::-1]: the positions in descending order of
\* fitness; the order of equal scores is the sort's, any of them here
ArgsortDescending(fit) ==
    {o \in [1 .. Len(fit) -> 1 .. Len(fit)] :
        /\ \A x, y \in 1 .. Len(fit) : x # y => o[x] # o[y]
        /\ \A x, y \in 1 .. Len(fit) : x < y => ~Less(fit[o[x]], fit[o[y]])}

\* [a[i] for i in sorted_indices[-POPULATION_SIZE:]]
TakeSortedTail(a, sorted_indices) ==
    [x \in 1 .. Min(POPULATION_SIZE, Len(sorted_indices)) |->
        a[sorted_indices[Len(sorted_indices) - Min(POPULATION_SIZE, Len(sorted_indices)) + x]]]

\* [a[i] for i in sorted_indices[:POPULATION_SIZE]]
TakeSorted(a, sorted_indices) ==
    [x \in 1 .. Min(POPULATION_SIZE, Len(sorted_indices)) |-> a[sorted_indices[x]]]

\* the child of one pass of `for _ in range(OFFSPRING_SIZE)`: pmx of the two
\* parents, mutated when random.random() < 0.2
Child(p1, p2, n, cut, mutated, sw) ==
    IF mutated
    THEN mutate(pmx(p1.tour, p2.tour, n, cut[1], cut[2]), sw[1], sw[2])
    ELSE pmx(p1.tour, p2.tour, n, cut[1], cut[2])

\* the tour length of an individual
DistanceOf(ind, D) == calculate_distance_path(ind.tour, D)

\* the shortest tour length of a list of individuals, as a float
ShortestIn(pop, D) ==
    Float(CHOOSE d \in {DistanceOf(pop[x], D) : x \in 1 .. Len(pop)} :
              \A x \in 1 .. Len(pop) : d <= DistanceOf(pop[x], D), 1)

\* the pmx variables of a program that is not inside pmx
PmxIdle ==
    /\ parent1 = Unbound /\ parent2 = Unbound /\ child = Unbound
    /\ start = None /\ end = None /\ i = None /\ j = None

\* the tournament_selection variables of a program that is not inside it
SelIdle == k = None /\ selected = Unbound /\ selected_fitness = Unbound

\* the genetic_algorithm variables of a program that is not inside it
GaIdle ==
    /\ population = Unbound /\ fitness_scores = Unbound /\ best_individual = Unbound
    /\ offspring = Unbound /\ generation = None
    /\ best_distance = Unbound /\ best_generation = None

\* the greedy_algorithm variables of a program that is not inside it
GreedyIdle == tour = Unbound /\ visited = {} /\ total_cost = None /\ steps = None

\* the fitness / mutate variables of a program that is not inside them
FitIdle == individual = Unbound /\ result = Unbound

\* no CSV file has been read
InputIdle == cities = Unbound /\ DIST_MATRIX = Unbound

-----------------------------------------------------------------------------
(* pmx called on two parents, statement by statement *)

InitPmx ==
    /\ pc = "pmx"
    /\ num_cities \in 2 .. MaxCities
    /\ parent1 \in Permutations0(num_cities)
    /\ parent2 \in Permutations0(num_cities)
    /\ child = Unbound /\ start = None /\ end = None /\ i = None /\ j = None
    /\ InputIdle /\ SelIdle /\ GaIdle /\ GreedyIdle /\ FitIdle

\* the cut points are drawn and the segment of parent1 is copied
PmxCut ==
    /\ pc = "pmx"
    /\ \E c \in CutPoints(num_cities) :
          /\ start' = c[1]
          /\ end' = c[2]
          /\ child' = CopySegment(parent1, num_cities, c[1], c[2])
          /\ i' = c[1]
    /\ pc' = "pmx_for"
    /\ UNCHANGED <<j, parent1, parent2, inputVars, selVars, gaVars, greedyVars, fitVars>>

\* one pass of `for i in range(start, end)`
PmxMap ==
    /\ pc = "pmx_for"
    /\ i < end
    /\ child' = MapStep(child, parent1, parent2, start, end, i)
    /\ i' = i + 1
    /\ UNCHANGED <<pc, j, parent1, parent2, start, end, inputVars, selVars, gaVars, greedyVars, fitVars>>

\* the loop over the segment is over: the unassigned cells take parent2's values
PmxFill ==
    /\ pc = "pmx_for"
    /\ i >= end
    /\ child' = FillRest(child, parent2, num_cities)
    /\ pc' = "pmx_return"
    /\ UNCHANGED <<i, j, parent1, parent2, start, end, inputVars, selVars, gaVars, greedyVars, fitVars>>

NextPmx == PmxCut \/ PmxMap \/ PmxFill

SpecPmx == InitPmx /\ [][NextPmx]_vars

\* C1: for all permutations parent1, parent2 of 0..N-1 (N >= 2) and all cut
\* points 0 <= start < end <= N-1, the child pmx returns has length N and
\* holds every value of 0..N-1 exactly once, with no cell left None.
C1_PmxReturnsPermutation ==
    pc = "pmx_return" =>
        /\ 0 <= start /\ start < end /\ end <= num_cities - 1
        /\ Len0(child) = num_cities
        /\ IsPermutation(child, num_cities)

\* the statement-by-statement run of pmx ends in the value of the operator pmx
PmxStepsAreOperator ==
    pc = "pmx_return" => child = pmx(parent1, parent2, num_cities, start, end)

\* pmx has returned a child that needed the mapping chain: it is neither parent
\* and the segment is longer than one cell
C1_Witness ==
    /\ pc = "pmx_return"
    /\ end - start >= 2
    /\ child # parent1 /\ child # parent2
    /\ \E x \in start .. (end - 1) :
          LET y == FirstIndex(parent2, parent1[x]) IN start <= y /\ y < end /\ y # x

\* C19: the cut points pmx draws satisfy 0 <= start < end <= N-1, so the
\* segment [start, end) is never empty and never holds the last position, and
\* from the copy of the segment to the return the child equals parent1 on the
\* segment: child[x] = parent1[x] for start <= x < end.
C19_SegmentIsParent1 ==
    pc \in {"pmx_for", "pmx_return"} =>
        /\ 0 <= start /\ start < end /\ end <= num_cities - 1
        /\ (num_cities - 1) \notin start .. (end - 1)
        /\ \A x \in start .. (end - 1) : child[x] = parent1[x]

\* pmx has returned a child cut at the widest segment, 0 .. N-2, that has
\* parent1's values there and is not parent1
C19_Witness ==
    /\ pc = "pmx_return"
    /\ num_cities = MaxCities
    /\ start = 0 /\ end = num_cities - 1
    /\ \A x \in start .. (end - 1) : child[x] = parent1[x]
    /\ parent2[num_cities - 1] # parent1[num_cities - 1]

\* C20: in a pass of the loop over the segment at a position i whose parent2
\* value is not yet in the child, the mapping chain ends: it makes at least
\* one and at most end - start look-ups and returns to no position; the pass
\* changes exactly one cell of the child, a cell outside [start, end) that
\* was unassigned (None), to parent2[i]. A pass at a position whose parent2
\* value is in the child changes nothing. No assigned cell is overwritten.
C20_ChainEndsAtUnassignedCell ==
    [][(pc = "pmx_for" /\ i < end) =>
          IF \A y \in Range(num_cities) : child[y] # parent2[i]
          THEN /\ ChainLookups(parent1, parent2, start, end, i, {}) \in 1 .. (end - start)
               /\ \E w \in Range(num_cities) \ (start .. (end - 1)) :
                     /\ child[w] = None
                     /\ child'[w] = parent2[i]
                     /\ \A y \in Range(num_cities) \ {w} : child'[y] = child[y]
          ELSE child' = child]_vars

\* a pass of the loop has just placed a value after a chain of two or more
\* look-ups, in a cell outside the segment
C20_Witness ==
    /\ pc = "pmx_for"
    /\ i > start
    /\ ChainLookups(parent1, parent2, start, end, i - 1, {}) >= 2
    /\ \E w \in Range(num_cities) \ (start .. (end - 1)) : child[w] = parent2[i - 1]
    /\ \A y \in start .. (end - 1) : parent1[y] # parent2[i - 1]

-----------------------------------------------------------------------------
(* tournament_selection called on a population and its fitness scores *)

\* the fitness scores 1 / d of tours of length 1 .. MaxTourLength
FitnessValues == {Reciprocal(Float(d, 1)) : d \in 1 .. MaxTourLength}

\* populations of n distinct objects (equal contents allowed)
Populations(n) == {[x \in 1 .. n |-> Individual(x, f[x])] : f \in [1 .. n -> Permutations0(2)]}

InitSel ==
    /\ pc = "tournament_selection"
    /\ num_cities = 2
    /\ \E n \in 1 .. MaxPopulation :
          /\ population \in Populations(n)
          /\ fitness_scores \in [1 .. n -> FitnessValues]
    /\ k = None /\ selected = Unbound /\ selected_fitness = Unbound
    /\ best_individual = Unbound
    /\ offspring = Unbound /\ generation = None
    /\ best_distance = Unbound /\ best_generation = None
    /\ InputIdle /\ PmxIdle /\ GreedyIdle /\ FitIdle

\* k = min(k, len(population)); selected = random.sample(population, k)
SelSample ==
    /\ pc = "tournament_selection"
    /\ k' = TournamentK(population)
    /\ IF k' > Len(population)
       THEN pc' = "ValueError" /\ UNCHANGED selected
       ELSE /\ \E smp \in Samples(population, k') : selected' = Selected(population, smp)
            /\ pc' = "sel_sampled"
    /\ UNCHANGED <<selected_fitness, inputVars, pmxVars, gaVars, greedyVars, fitVars>>

\* selected_fitness = [...]; best_individual = selected[selected_fitness.index(max(...))]
SelPick ==
    /\ pc = "sel_sampled"
    /\ selected_fitness' = SelectedFitness(population, fitness_scores, selected, 1)
    /\ IF BestIndex(selected_fitness') > Len(selected)
       THEN pc' = "IndexError" /\ UNCHANGED best_individual
       ELSE pc' = "sel_return" /\ best_individual' = selected[BestIndex(selected_fitness')]
    /\ UNCHANGED <<k, selected, population, fitness_scores, offspring, generation,
                   best_distance, best_generation, inputVars, pmxVars, greedyVars, fitVars>>

NextSel == SelSample \/ SelPick

SpecSel == InitSel /\ [][NextSel]_vars

\* C2: the individual tournament_selection returns has a fitness score greater
\* than or equal to the score of every individual of the sample, whatever
\* the order in which the sample was drawn.
C2_ReturnsFittestOfSample ==
    pc = "sel_return" =>
        \A x \in 1 .. Len(selected) :
            ~Less(ScoreOf(population, fitness_scores, best_individual),
                  ScoreOf(population, fitness_scores, selected[x]))

\* C3: tournament_selection draws min(k, len(population)) pairwise distinct
\* members of the population, the index it computes from selected_fitness is
\* a position of the sample (no IndexError, no ValueError), and the individual
\* returned is one of the sampled members.
C3_ReturnsSampledMember ==
    /\ pc \notin {"IndexError", "ValueError"}
    /\ pc \in {"sel_sampled", "sel_return"} =>
          /\ k = Min(TOURNAMENT_K, Len(population))
          /\ Len(selected) = k
          /\ \A x, y \in 1 .. Len(selected) : x # y => selected[x].id # selected[y].id
          /\ \A x \in 1 .. Len(selected) : \E y \in 1 .. Len(population) : population[y] = selected[x]
    /\ pc = "sel_return" =>
          /\ Len(selected_fitness) = Len(selected)
          /\ BestIndex(selected_fitness) \in 1 .. Len(selected)
          /\ \E x \in 1 .. Len(selected) : selected[x] = best_individual

\* a tournament of 3 drawn from a larger population whose members share
\* contents has returned a sampled member
C3_Witness ==
    /\ pc = "sel_return"
    /\ k = TOURNAMENT_K
    /\ Len(population) > k
    /\ \E x, y \in 1 .. Len(population) : x # y /\ population[x].tour = population[y].tour
    /\ \E x \in 1 .. Len(selected) : selected[x] = best_individual

-----------------------------------------------------------------------------
(* mutate called on an individual *)

InitMutate ==
    /\ pc = "mutate"
    /\ num_cities \in 2 .. MaxCities
    /\ individual \in Permutations0(num_cities)
    /\ result = Unbound
    /\ InputIdle /\ PmxIdle /\ SelIdle /\ GaIdle /\ GreedyIdle

\* i, j = random.sample(...); the two cells are exchanged in place; return individual
Mutate ==
    /\ pc = "mutate"
    /\ \E sw \in SwapPoints(Len0(individual)) :
          /\ i' = sw[1]
          /\ j' = sw[2]
          /\ individual' = mutate(individual, sw[1], sw[2])
    /\ result' = individual'
    /\ pc' = "mutate_return"
    /\ UNCHANGED <<parent1, parent2, start, end, child, inputVars, selVars, gaVars, greedyVars>>

NextMutate == Mutate

SpecMutate == InitMutate /\ [][NextMutate]_vars

\* C8: on a permutation of length N >= 2, mutate picks two distinct positions
\* i # j, exchanges the values at exactly these two positions and leaves every
\* other position as it was; the result is a permutation of the same values.
C8_MutateSwapsTwoCells ==
    [][pc = "mutate" =>
          /\ i' # j'
          /\ {i', j'} \subseteq DOMAIN individual
          /\ individual'[i'] = individual[j']
          /\ individual'[j'] = individual[i']
          /\ \A x \in DOMAIN individual \ {i', j'} : individual'[x] = individual[x]
          /\ DOMAIN individual' = DOMAIN individual
          /\ IsPermutation(individual', num_cities)
          /\ {individual'[x] : x \in DOMAIN individual'} = {individual[x] : x \in DOMAIN individual}
          /\ result' = individual']_vars

\* mutate has returned an individual in which two cells hold exchanged values
C8_Witness ==
    /\ pc = "mutate_return"
    /\ i # j
    /\ individual[i] # individual[j]
    /\ IsPermutation(individual, num_cities)
    /\ num_cities = MaxCities

-----------------------------------------------------------------------------
(* greedy_algorithm called on a CSV file *)

InitGreedy ==
    /\ pc = "greedy_algorithm"
    /\ \E n \in 1 .. MaxCities : cities \in CityFiles(n)
    /\ DIST_MATRIX = Unbound
    /\ num_cities = None
    /\ GreedyIdle /\ PmxIdle /\ SelIdle /\ GaIdle /\ FitIdle

\* DIST_MATRIX = compute_DIST_MATRIX(file_path) .. steps = 0
GreedyStart ==
    /\ pc = "greedy_algorithm"
    /\ DIST_MATRIX' = compute_DIST_MATRIX(cities)
    /\ num_cities' = Len0(cities)
    /\ tour' = <<0>>
    /\ visited' = {0}
    /\ total_cost' = 0
    /\ steps' = 0
    /\ pc' = "greedy_while"
    /\ UNCHANGED <<cities, pmxVars, selVars, gaVars, fitVars>>

\* one pass of `while len(tour) < num_cities`
GreedyStep ==
    /\ pc = "greedy_while"
    /\ TourIncomplete(tour, num_cities)
    /\ LET next_city == NextCity(DIST_MATRIX, num_cities, visited, Last(tour)) IN
          /\ total_cost' = total_cost + DIST_MATRIX[Last(tour)][next_city]
          /\ tour' = Append(tour, next_city)
          /\ visited' = visited \cup {next_city}
    /\ steps' = steps + 1
    /\ UNCHANGED <<pc, inputVars, pmxVars, selVars, gaVars, fitVars>>

\* the loop is over: the tour is closed and returned
GreedyClose ==
    /\ pc = "greedy_while"
    /\ ~TourIncomplete(tour, num_cities)
    /\ total_cost' = total_cost + ClosingEdge(DIST_MATRIX, tour)
    /\ tour' = Append(tour, tour[1])
    /\ steps' = steps + 1
    /\ pc' = "greedy_return"
    /\ UNCHANGED <<visited, inputVars, pmxVars, selVars, gaVars, fitVars>>

NextGreedy == GreedyStart \/ GreedyStep \/ GreedyClose

SpecGreedy == InitGreedy /\ [][NextGreedy]_vars

\* greedy_algorithm is one sequential call: while a statement is left to run, one runs
FairSpecGreedy == SpecGreedy /\ WF_vars(NextGreedy)

\* C4: for N >= 2 cities greedy_algorithm returns a tour of length N+1 that
\* starts and ends in city 0 and whose first N entries hold every city of
\* 0..N-1 exactly once; while the tour is built it repeats no city and
\* visited is the set of the cities in it.
C4_GreedyTourVisitsEveryCityOnce ==
    (pc \in {"greedy_while", "greedy_return"} /\ num_cities >= 2) =>
        /\ pc = "greedy_while" =>
              /\ \A x, y \in 1 .. Len(tour) : x # y => tour[x] # tour[y]
              /\ visited = {tour[x] : x \in 1 .. Len(tour)}
              /\ Len(tour) <= num_cities
        /\ pc = "greedy_return" =>
              /\ Len(tour) = num_cities + 1
              /\ tour[1] = 0
              /\ tour[num_cities + 1] = 0
              /\ \A c \in Range(num_cities) :
                    Cardinality({x \in 1 .. num_cities : tour[x] = c}) = 1

\* greedy_algorithm has returned a closed tour over the largest city set
C4_Witness ==
    /\ pc = "greedy_return"
    /\ num_cities = MaxCities
    /\ Len(tour) = num_cities + 1
    /\ {tour[x] : x \in 1 .. num_cities} = Range(num_cities)

\* C5: the total_cost greedy_algorithm returns is the sum of
\* DIST_MATRIX[tour[i], tour[i+1]] over the consecutive pairs of the returned
\* tour, the closing edge included; while the tour is built total_cost is the
\* sum of the edges of the tour so far.
C5_GreedyCostIsSumOfEdges ==
    pc \in {"greedy_while", "greedy_return"} => total_cost = TourCost(tour, DIST_MATRIX, 1)

\* greedy_algorithm has returned a tour whose closing edge has a cost
C5_Witness ==
    /\ pc = "greedy_return"
    /\ num_cities >= 3
    /\ DIST_MATRIX[tour[num_cities]][0] > 0
    /\ total_cost = TourCost(tour, DIST_MATRIX, 1)
    /\ total_cost > DIST_MATRIX[tour[num_cities]][0]

\* C10: a file of fewer than 2 cities ends in InsufficientCitiesError: from it
\* greedy_algorithm builds no tour and genetic_algorithm no population.
C10_RejectsFewerThanTwoCities ==
    Len0(cities) < 2 => pc \in {"greedy_algorithm", "genetic_algorithm", "InsufficientCitiesError"}

\* C11: the matrix compute_DIST_MATRIX returns is symmetric with a zero
\* diagonal, D[i][j] = D[j][i] and D[i][i] = 0 for all cities i, j, it is the
\* matrix of the file, and once it is built no step of the algorithm that uses
\* it changes any entry of it.
C11_DistMatrixSymmetricAndReadOnly ==
    /\ [](pc \notin {"greedy_algorithm", "genetic_algorithm"} =>
            /\ DOMAIN DIST_MATRIX = Range(num_cities)
            /\ \A r, c \in Range(num_cities) :
                  /\ DIST_MATRIX[r][c] = DIST_MATRIX[c][r]
                  /\ DIST_MATRIX[r][r] = 0
                  /\ DIST_MATRIX[r][c] = geodesic(cities[r], cities[c]))
    /\ [][pc \notin {"greedy_algorithm", "genetic_algorithm"} => DIST_MATRIX' = DIST_MATRIX]_vars

\* greedy_algorithm has returned over the largest city set, two of whose cities
\* are the farthest apart the grid allows, in both directions of the matrix
C11_Witness ==
    /\ pc = "greedy_return"
    /\ num_cities = MaxCities
    /\ \E r, c \in Range(num_cities) :
          r < c /\ DIST_MATRIX[r][c] = 2 * MaxCoord /\ DIST_MATRIX[c][r] = 2 * MaxCoord

\* C15: every step of the while loop of greedy_algorithm appends one city to
\* the tour: a city not yet visited, whose distance from the city that was
\* last is minimal among the unvisited cities, and of the unvisited cities at
\* that minimal distance the one with the lowest index.
C15_GreedyAppendsNearestLowestIndex ==
    [][(pc = "greedy_while" /\ Len(tour) < num_cities) =>
          LET last == Last(tour)
              appended == Last(tour')
          IN  /\ tour' = Append(tour, appended)
              /\ appended \in Range(num_cities) \ visited
              /\ \A o \in Range(num_cities) \ visited :
                    /\ DIST_MATRIX[last][appended] <= DIST_MATRIX[last][o]
                    /\ DIST_MATRIX[last][o] = DIST_MATRIX[last][appended] => appended <= o]_vars

\* the loop has appended a city although a city of higher index, still
\* unvisited, is as near to the city before it, and a nearer city than both
\* had been visited already
C15_Witness ==
    /\ pc = "greedy_while"
    /\ Len(tour) >= 3
    /\ LET before == tour[Len(tour) - 1]
           appended == Last(tour)
       IN  /\ \E o \in Range(num_cities) \ visited :
                 /\ o > appended
                 /\ DIST_MATRIX[before][o] = DIST_MATRIX[before][appended]
           /\ \E v \in visited \ {before, appended} :
                 DIST_MATRIX[before][v] < DIST_MATRIX[before][appended]

\* C16: greedy_algorithm terminates, every call of it reaches its return, and
\* the step count it returns is N: one step for each of the N-1 cities
\* appended after city 0 and one for the closing return to city 0. While the
\* tour is built, steps is the number of cities appended so far.
C16_GreedyTerminatesInNSteps ==
    /\ <>(pc = "greedy_return")
    /\ [](pc = "greedy_while" => steps = Len(tour) - 1)
    /\ [](pc = "greedy_return" => steps = num_cities /\ steps = Len(tour) - 1)

\* greedy_algorithm has returned after MaxCities steps over MaxCities cities
C16_Witness ==
    /\ pc = "greedy_return"
    /\ num_cities = MaxCities
    /\ steps = MaxCities
    /\ Len(tour) = MaxCities + 1

-----------------------------------------------------------------------------
(* genetic_algorithm called on a CSV file *)

Init ==
    /\ pc = "genetic_algorithm"
    /\ cities \in datasets
    /\ DIST_MATRIX = Unbound
    /\ num_cities = None
    /\ GaIdle /\ PmxIdle /\ SelIdle /\ GreedyIdle /\ FitIdle

\* DIST_MATRIX = compute_DIST_MATRIX(file_path) .. best_generation = 0, and the
\* entry into the first generation
GaStart ==
    /\ pc = "genetic_algorithm"
    /\ DIST_MATRIX' = compute_DIST_MATRIX(cities)
    /\ num_cities' = Len0(cities)
    /\ population' \in create_population(Len0(cities))
    /\ fitness_scores' = FitnessScores(population', DIST_MATRIX')
    /\ best_individual' = Unbound
    /\ best_distance' = inf
    /\ best_generation' = 0
    /\ generation' = 0
    /\ offspring' = <<>>
    /\ pc' = "ga_breed"
    /\ UNCHANGED <<cities, pmxVars, selVars, greedyVars, fitVars>>

\* one pass of `for _ in range(OFFSPRING_SIZE)`: two tournaments, pmx, mutate or
\* not, offspring.append(child)
Breed ==
    /\ pc = "ga_breed"
    /\ Len(offspring) < OFFSPRING_SIZE
    /\ \E smp1, smp2 \in Samples(population, TournamentK(population)) :
          IF \/ TournamentRaises(population, fitness_scores, smp1)
             \/ TournamentRaises(population, fitness_scores, smp2)
          THEN pc' = "IndexError" /\ UNCHANGED offspring
          ELSE IF num_cities < 2
          THEN pc' = "ValueError" /\ UNCHANGED offspring
          ELSE \E cut \in CutPoints(num_cities), mutated \in BOOLEAN :
               \E sw \in (IF mutated THEN SwapPoints(num_cities) ELSE {<<None, None>>}) :
                  /\ offspring' = Append(offspring,
                        Individual(FreshId(Ids(population) \cup Ids(offspring)
                                           \cup (IF best_individual = Unbound THEN {} ELSE {best_individual.id})),
                                   Child(tournament_selection(population, fitness_scores, smp1),
                                         tournament_selection(population, fitness_scores, smp2),
                                         num_cities, cut, mutated, sw)))
                  /\ pc' = "ga_breed"
    /\ UNCHANGED <<population, fitness_scores, best_individual, generation,
                   best_distance, best_generation, inputVars, pmxVars, selVars, greedyVars, fitVars>>

\* population.extend(offspring); fitness_scores = [fitness(ind, DIST_MATRIX) for ind in population]
Extend ==
    /\ pc = "ga_breed"
    /\ Len(offspring) >= OFFSPRING_SIZE
    /\ population' = population \o offspring
    /\ fitness_scores' = FitnessScores(population', DIST_MATRIX)
    /\ pc' = "ga_sort"
    /\ UNCHANGED <<offspring, best_individual, generation, best_distance, best_generation,
                   inputVars, pmxVars, selVars, greedyVars, fitVars>>

\* sorted_indices = np.argsort(fitness_scores)[::-1]; population and
\* fitness_scores keep their first POPULATION_SIZE entries in that order
Truncate ==
    /\ pc = "ga_sort"
    /\ \E sorted_indices \in ArgsortDescending(fitness_scores) :
          /\ population' = TakeSorted(population, sorted_indices)
          /\ fitness_scores' = TakeSorted(fitness_scores, sorted_indices)
    /\ pc' = "ga_best"
    /\ UNCHANGED <<offspring, best_individual, generation, best_distance, best_generation,
                   inputVars, pmxVars, selVars, greedyVars, fitVars>>

\* `if best_distance_current <= best_distance`
ImprovesOrTies(current, best) == ~Less(best, current)

\* the condition of `if best_distance_current < best_distance`
Improves(current, best) == Less(current, best)

\* a loop over range(MAX_GENERATIONS - 1)
GenerationsOneFewer == Range(MAX_GENERATIONS - 1)

\* range(MAX_GENERATIONS): the values of generation in `for generation in range(MAX_GENERATIONS)`
Generations == Range(MAX_GENERATIONS)

\* best_fitness = max(fitness_scores) .. best_generation = generation, and the
\* entry into the next generation or the return
TrackBest ==
    /\ pc = "ga_best"
    /\ LET best_fitness == MaxOf(fitness_scores)
           best_individual_current == population[ListIndex(fitness_scores, best_fitness)]
           best_distance_current == Reciprocal(best_fitness)
       IN  IF Improves(best_distance_current, best_distance)
           THEN /\ best_distance' = best_distance_current
                /\ best_individual' = best_individual_current
                /\ best_generation' = generation
           ELSE UNCHANGED <<best_distance, best_individual, best_generation>>
    /\ IF generation + 1 \in Generations
       THEN generation' = generation + 1 /\ offspring' = <<>> /\ pc' = "ga_breed"
       ELSE pc' = "ga_return" /\ UNCHANGED <<generation, offspring>>
    /\ UNCHANGED <<population, fitness_scores, inputVars, pmxVars, selVars, greedyVars, fitVars>>

Next == GaStart \/ Breed \/ Extend \/ Truncate \/ TrackBest

Spec == Init /\ [][Next]_vars

\* the states of genetic_algorithm in which population and fitness_scores are bound
GaRunning == pc \in {"ga_breed", "ga_sort", "ga_best", "ga_return", "ValueError", "IndexError"}

C7_IndividualsArePermutations ==
    GaRunning =>
        /\ \A x \in 1 .. Len(population) : IsPermutation(population[x].tour, num_cities)
        /\ \A x \in 1 .. Len(offspring) : IsPermutation(offspring[x].tour, num_cities)
        /\ best_individual # Unbound => IsPermutation(best_individual.tour, num_cities)
        /\ pc = "ga_return" => best_individual # Unbound

\* genetic_algorithm has returned, as its best, a tour of four cities that
\* first entered the population in the last generation: a child bred there
C7_Witness ==
    /\ pc = "ga_return"
    /\ num_cities = 4
    /\ best_generation = MAX_GENERATIONS - 1
    /\ IsPermutation(best_individual.tour, num_cities)
    /\ \E x \in 1 .. Len(population) : population[x] = best_individual

\* C9: a tour of length exactly 0 (over a file of at least 2 cities, all in
\* one place) has a finite fitness score: fitness does not divide by zero.
C9_ZeroLengthTourHasFiniteFitness ==
    (GaRunning /\ num_cities >= 2) =>
        \A x \in 1 .. Len(population) :
            DistanceOf(population[x], DIST_MATRIX) = 0 =>
                /\ IsFinite(fitness(population[x].tour, DIST_MATRIX))
                /\ IsFinite(fitness_scores[x])

\* the statements genetic_algorithm has left to run: per generation one per
\* child bred, the extend, the truncation and the tracking of the best
StepsLeft ==
    LET perGeneration == OFFSPRING_SIZE + 3
        generationsLeft == MAX_GENERATIONS - generation
    IN  CASE pc = "genetic_algorithm" -> MAX_GENERATIONS * perGeneration + 1
          [] pc = "ga_breed" -> generationsLeft * perGeneration - Len(offspring)
          [] pc = "ga_sort" -> generationsLeft * perGeneration - OFFSPRING_SIZE - 1
          [] pc = "ga_best" -> generationsLeft * perGeneration - OFFSPRING_SIZE - 2
          [] OTHER -> 0

\* genetic_algorithm has a statement to run: the next one is not held up for
\* want of a population, a tournament sample or a sort order (the extend and
\* the tracking of the best are plain assignments)
CanStep ==
    CASE pc = "genetic_algorithm" -> ENABLED GaStart
      [] pc = "ga_breed" -> Len(offspring) < OFFSPRING_SIZE => ENABLED Breed
      [] pc = "ga_sort" -> ENABLED Truncate
      [] pc = "ga_best" -> TRUE
      [] OTHER -> FALSE

\* C12: called on a file of N >= 2 cities genetic_algorithm terminates after
\* exactly MAX_GENERATIONS generations: until it returns it always has a
\* statement to run and raises nothing, every step takes it one statement
\* closer to the return (so no run goes on for ever, stops early or repeats a
\* generation), generation only ever steps from g to g+1, at the end of
\* generation g, and is MAX_GENERATIONS-1 at the return; the triple returned
\* has a best_individual that is not None, a finite best_distance and a
\* best_generation in 0 .. MAX_GENERATIONS-1.
C12_TerminatesAfterAllGenerations ==
    /\ []((Len0(cities) >= 2 /\ pc # "ga_return") =>
            /\ pc \in {"genetic_algorithm", "ga_breed", "ga_sort", "ga_best"}
            /\ CanStep
            /\ StepsLeft > 0)
    /\ []((Len0(cities) >= 2 /\ pc = "ga_return") =>
            /\ StepsLeft = 0
            /\ generation = MAX_GENERATIONS - 1
            /\ best_individual # Unbound
            /\ IsFinite(best_distance)
            /\ best_generation \in 0 .. (MAX_GENERATIONS - 1))
    /\ [][Len0(cities) >= 2 =>
            /\ StepsLeft' = StepsLeft - 1
            /\ GaRunning =>
                  \/ generation' = generation /\ (pc = "ga_best" => pc' = "ga_return")
                  \/ generation' = generation + 1 /\ pc = "ga_best" /\ pc' = "ga_breed"]_vars

\* genetic_algorithm has returned after its last generation, over tours of
\* positive length, a best tour of finite length found in the last generation
C12_Witness ==
    /\ pc = "ga_return"
    /\ num_cities >= 2
    /\ generation = MAX_GENERATIONS - 1
    /\ best_generation = MAX_GENERATIONS - 1
    /\ best_individual # Unbound
    /\ IsFinite(best_distance)
    /\ \A x \in 1 .. Len(population) : DistanceOf(population[x], DIST_MATRIX) > 0

\* C13: the truncation step of every generation leaves POPULATION_SIZE
\* survivors, each an individual of the parents plus offspring and none of
\* them twice, in descending order of fitness, and every survivor has a
\* fitness >= that of every discarded individual, parent or child.
C13_TruncationKeepsTheFittest ==
    [][pc = "ga_sort" =>
          /\ Len(population') = POPULATION_SIZE
          /\ \A y \in 1 .. Len(population') : \E x \in 1 .. Len(population) : population'[y] = population[x]
          /\ \A x, y \in 1 .. Len(population') : x # y => population'[x].id # population'[y].id
          /\ \A x, y \in 1 .. Len(population') :
                x < y => ~Less(fitness(population'[x].tour, DIST_MATRIX),
                               fitness(population'[y].tour, DIST_MATRIX))
          /\ \A x \in 1 .. Len(population) :
                population[x].id \notin Ids(population') =>
                    \A y \in 1 .. Len(population') :
                        ~Less(fitness(population'[y].tour, DIST_MATRIX),
                              fitness(population[x].tour, DIST_MATRIX))]_vars

\* a truncation has kept a child ahead of a less fit parent and has discarded
\* another parent
C13_Witness ==
    /\ pc = "ga_best"
    /\ num_cities = 4
    /\ Len(offspring) = OFFSPRING_SIZE
    /\ population[1] = offspring[1]
    /\ Less(fitness_scores[POPULATION_SIZE], fitness_scores[1])
    /\ \E x \in 1 .. POPULATION_SIZE : population[x].id \notin Ids(offspring)

\* C14: at the start and at the end of every generation the population has
\* exactly POPULATION_SIZE members, and POPULATION_SIZE + OFFSPRING_SIZE only
\* between the extend and the truncation; whenever tournament_selection is
\* called (in the breeding loop) or the best of the generation is read (after
\* the truncation), and at every other point from the first generation to the
\* return, fitness_scores is as long as population and fitness_scores[i] is
\* the fitness of population[i].
C14_PopulationSizeAndFitnessAligned ==
    /\ pc \in {"ga_breed", "ga_best", "ga_return"} => Len(population) = POPULATION_SIZE
    /\ pc = "ga_sort" => Len(population) = POPULATION_SIZE + OFFSPRING_SIZE
    /\ pc \in {"ga_breed", "ga_sort", "ga_best", "ga_return"} =>
          /\ Len(fitness_scores) = Len(population)
          /\ \A x \in 1 .. Len(population) :
                fitness_scores[x] = fitness(population[x].tour, DIST_MATRIX)

\* the best of the second generation is about to be read from a population
\* that a truncation has reordered: a child leads it, ahead of a less fit parent
C14_Witness ==
    /\ pc = "ga_best"
    /\ generation = 1
    /\ num_cities = 4
    /\ population[1] = offspring[1]
    /\ Len(fitness_scores) = POPULATION_SIZE
    /\ Less(fitness_scores[2], fitness_scores[1])
    /\ fitness_scores[2] = fitness(population[2].tour, DIST_MATRIX)

\* C17: the running best (best_individual, best_distance, best_generation)
\* changes only where the best of a generation is tracked, and only when the
\* shortest tour length of that generation's truncated population is strictly
\* smaller than best_distance; it then becomes an individual of that length
\* and best_generation the index of that generation. A generation whose
\* shortest tour is strictly shorter is always recorded, one that only ties
\* changes nothing. Between generations the running best is therefore that of
\* the truncated population of the last generation, so best_generation, at
\* the return too, is the first generation that attained best_distance.
C17_BestReplacedOnlyByStrictlyShorter ==
    /\ [][(GaRunning /\ <<best_individual, best_distance, best_generation>>'
                          # <<best_individual, best_distance, best_generation>>) =>
            /\ pc = "ga_best"
            /\ Less(ShortestIn(population, DIST_MATRIX), best_distance)
            /\ Less(best_distance', best_distance)
            /\ best_generation' = generation
            /\ \E x \in 1 .. Len(population) : best_individual' = population[x]
            /\ Float(DistanceOf(best_individual', DIST_MATRIX), 1) = ShortestIn(population, DIST_MATRIX)]_vars
    /\ [][(pc = "ga_best" /\ Less(ShortestIn(population, DIST_MATRIX), best_distance)) =>
            best_generation' = generation /\ Less(best_distance', best_distance)]_vars
    /\ []((pc = "ga_return" \/ (pc = "ga_breed" /\ generation >= 1)) =>
            /\ best_individual # Unbound
            /\ Float(DistanceOf(best_individual, DIST_MATRIX), 1) = ShortestIn(population, DIST_MATRIX)
            /\ best_distance = Reciprocal(MaxOf(fitness_scores))
            /\ best_generation <= (IF pc = "ga_return" THEN generation ELSE generation - 1))

\* genetic_algorithm has returned the best of generation 0 although the last
\* generation bred a child of the same tour length that leads its truncated
\* population: the tie changed neither best_individual nor best_generation
C17_Witness ==
    /\ pc = "ga_return"
    /\ num_cities = 4
    /\ best_generation = 0
    /\ generation >= 1
    /\ population[1] = offspring[1]
    /\ best_individual # population[1]
    /\ DistanceOf(best_individual, DIST_MATRIX) = DistanceOf(population[1], DIST_MATRIX)

\* C18: when genetic_algorithm returns, best_distance is the tour length of
\* the returned best_individual, and no individual created in the run has a
\* strictly shorter tour than best_distance: none of the population on the
\* way and none of the offspring of any generation.
C18_BestDistanceIsLengthOfBest ==
    /\ pc = "ga_return" =>
          /\ ~Less(best_distance, Float(DistanceOf(best_individual, DIST_MATRIX), 1))
          /\ ~Less(Float(DistanceOf(best_individual, DIST_MATRIX), 1), best_distance)
    /\ (pc = "ga_return" \/ (pc = "ga_breed" /\ generation >= 1)) =>
          /\ \A x \in 1 .. Len(population) :
                ~Less(Float(DistanceOf(population[x], DIST_MATRIX), 1), best_distance)
          /\ pc = "ga_return" =>
                \A x \in 1 .. Len(offspring) :
                    ~Less(Float(DistanceOf(offspring[x], DIST_MATRIX), 1), best_distance)

-----------------------------------------------------------------------------
(* the breeding loop of the first generation, statement by statement, with  *)
(* in-place effects applied to every reference to the object they act on    *)

\* mutant: pmx fills in parent1 itself and returns it, no new list is created
PmxChildInPlace(p1, p2, n, cut, live) ==
    Individual(p1.id, pmx(p1.tour, p2.tour, n, cut[1], cut[2]))

\* pmx(parent1, parent2, num_cities): `child = [None] * num_cities` is a new
\* list, at an address no live object has, filled from the parents' values
PmxChild(p1, p2, n, cut, live) ==
    Individual(FreshId(live), pmx(p1.tour, p2.tour, n, cut[1], cut[2]))

\* the in-place swap of mutate as seen through a list of references: every
\* entry that is the object at address shows the swapped content
MutateObject(list, address, a, b) ==
    [x \in 1 .. Len(list) |->
        IF list[x].id = address
        THEN Individual(address, mutate(list[x].tour, a, b))
        ELSE list[x]]

InitBreed ==
    /\ pc = "genetic_algorithm"
    /\ cities \in {file \in datasets : Len0(file) <= MaxBreedCities}
    /\ DIST_MATRIX = Unbound
    /\ num_cities = None
    /\ GaIdle /\ PmxIdle /\ SelIdle /\ GreedyIdle /\ FitIdle

\* parent1 = tournament_selection(population, fitness_scores);
\* parent2 = tournament_selection(population, fitness_scores)
BreedSelect ==
    /\ pc = "ga_breed"
    /\ Len(offspring) < MaxOffspring
    /\ \E smp1, smp2 \in Samples(population, TournamentK(population)) :
          IF \/ TournamentRaises(population, fitness_scores, smp1)
             \/ TournamentRaises(population, fitness_scores, smp2)
          THEN pc' = "IndexError" /\ UNCHANGED <<parent1, parent2>>
          ELSE /\ parent1' = tournament_selection(population, fitness_scores, smp1)
               /\ parent2' = tournament_selection(population, fitness_scores, smp2)
               /\ pc' = "breed_pmx"
    /\ UNCHANGED <<start, end, child, i, j, gaVars, inputVars, selVars, greedyVars, fitVars>>

\* child = pmx(parent1, parent2, num_cities); random.sample(range(1), 2) raises ValueError
BreedPmx ==
    /\ pc = "breed_pmx"
    /\ IF num_cities < 2
       THEN pc' = "ValueError" /\ UNCHANGED child
       ELSE /\ \E cut \in CutPoints(num_cities) :
                  child' = PmxChild(parent1, parent2, num_cities, cut,
                                    Ids(population) \cup Ids(offspring))
            /\ pc' = "breed_mutate"
    /\ UNCHANGED <<parent1, parent2, start, end, i, j, gaVars, inputVars, selVars, greedyVars, fitVars>>

\* if random.random() < 0.2: child = mutate(child), the swap made in place in
\* the object child refers to
BreedMutate ==
    /\ pc = "breed_mutate"
    /\ \E mutated \in BOOLEAN :
          IF mutated
          THEN \E sw \in SwapPoints(num_cities) :
                  /\ child' = Individual(child.id, mutate(child.tour, sw[1], sw[2]))
                  /\ population' = MutateObject(population, child.id, sw[1], sw[2])
                  /\ offspring' = MutateObject(offspring, child.id, sw[1], sw[2])
                  /\ parent1' = (IF parent1.id = child.id
                                 THEN Individual(child.id, mutate(parent1.tour, sw[1], sw[2]))
                                 ELSE parent1)
                  /\ parent2' = (IF parent2.id = child.id
                                 THEN Individual(child.id, mutate(parent2.tour, sw[1], sw[2]))
                                 ELSE parent2)
          ELSE UNCHANGED <<child, population, offspring, parent1, parent2>>
    /\ pc' = "breed_append"
    /\ UNCHANGED <<start, end, i, j, fitness_scores, best_individual, generation,
                   best_distance, best_generation, inputVars, selVars, greedyVars, fitVars>>

\* offspring.append(child), and back to the head of `for _ in range(OFFSPRING_SIZE)`
BreedAppend ==
    /\ pc = "breed_append"
    /\ offspring' = Append(offspring, child)
    /\ pc' = "ga_breed"
    /\ UNCHANGED <<population, fitness_scores, best_individual, generation, best_distance,
                   best_generation, pmxVars, inputVars, selVars, greedyVars, fitVars>>

NextBreed == GaStart \/ BreedSelect \/ BreedPmx \/ BreedMutate \/ BreedAppend

SpecBreed == InitBreed /\ [][NextBreed]_vars

\* the states inside the breeding loop
Breeding == pc \in {"ga_breed", "breed_pmx", "breed_mutate", "breed_append"}

\* C21: producing the offspring of a generation changes no existing state.
\* No step of the breeding loop changes the population (its objects and their
\* contents), the fitness vector or a child already in offspring, and
\* fitness_scores stays the fitness of the population; the two tournaments
\* and pmx leave both parents as they are in the population, also when both
\* are the same individual; the child pmx returns is an object that is
\* neither in the population nor in offspring, and mutate changes that
\* object only. So every child is bred from the same population.
C21_BreedingChangesNoExistingState ==
    /\ [][Breeding =>
            /\ population' = population
            /\ fitness_scores' = fitness_scores
            /\ \A x \in 1 .. Len(offspring) : offspring'[x] = offspring[x]
            /\ pc \in {"breed_pmx", "breed_mutate"} => parent1' = parent1 /\ parent2' = parent2
            /\ pc = "breed_mutate" => child'.id = child.id]_vars
    /\ [](Breeding =>
            /\ fitness_scores = FitnessScores(population, DIST_MATRIX)
            /\ pc \in {"breed_pmx", "breed_mutate", "breed_append"} =>
                  /\ \E x \in 1 .. Len(population) : population[x] = parent1
                  /\ \E x \in 1 .. Len(population) : population[x] = parent2
            /\ pc \in {"breed_mutate", "breed_append"} =>
                  child.id \notin Ids(population) \cup Ids(offspring))

\* a second child, bred from one individual chosen as both parents and then
\* mutated, is about to be appended: it differs from its parent, which is
\* still in the population with its content, and from the first child
C21_Witness ==
    /\ pc = "breed_append"
    /\ Len(offspring) = 1
    /\ parent1.id = parent2.id
    /\ child.tour # parent1.tour
    /\ \E x \in 1 .. Len(population) : population[x] = parent1
    /\ child.id # offspring[1].id
    /\ fitness_scores = FitnessScores(population, DIST_MATRIX)

=============================================================================
